---- MODULE Spec2Model ----
(***************************************************************************)
(* Model of catalyst/examples/arbitrage_with_interface.py: the two-exchange *)
(* arbitrage algorithm (initialize, place_order, handle_data).             *)
(*                                                                         *)
(* Python floats are modelled as exact rationals [n, d] in lowest terms    *)
(* with d > 0.  Prices and cash levels are integers, so every comparison   *)
(* the code makes has the same outcome in floating point and in exact      *)
(* arithmetic.  None is the record [none |-> TRUE].                        *)
(***************************************************************************)
EXTENDS Integers, Sequences, FiniteSets, TLC

VARIABLES
    context,        \* the context object filled by initialize()
    open_orders,    \* exchange -> number of open orders of its asset
    cash,           \* exchange -> exchange.portfolio.cash
    balances,       \* exchange -> the dict exchange.get_balances() returns
    pc,             \* "idle" | "returned" | "raised": where the current bar is
    buying_price,   \* data.current(...) of the bar handled last
    selling_price,
    recorded,       \* what record(...) received on that bar, or None
    calls,          \* the place_order calls made on that bar
    orders          \* the order(...) calls made on that bar

vars == <<context, open_orders, cash, balances, pc, buying_price,
          selling_price, recorded, calls, orders>>

None == [none |-> TRUE]

-----------------------------------------------------------------------------
(* Exact rational arithmetic standing for Python's float operators.        *)

Abs(x) == IF x < 0 THEN -x ELSE x

RECURSIVE GCD(_, _)
GCD(a, b) == IF b = 0 THEN a ELSE GCD(b, a % b)

\* n/d in lowest terms with a positive denominator (d # 0)
Rat(n, d) ==
    LET g == GCD(Abs(n), Abs(d))
        s == IF d < 0 THEN -1 ELSE 1
    IN  [n |-> (s * n) \div g, d |-> (s * d) \div g]

Num(k) == [n |-> k, d |-> 1]

RMul(a, b) == Rat(a.n * b.n, a.d * b.d)
RDiv(a, b) == Rat(a.n * b.d, a.d * b.n)
RAdd(a, b) == Rat(a.n * b.d + b.n * a.d, a.d * b.d)
RSub(a, b) == Rat(a.n * b.d - b.n * a.d, a.d * b.d)
RNeg(a)    == [n |-> -a.n, d |-> a.d]
RLt(a, b)  == a.n * b.d < b.n * a.d
RGt(a, b)  == RLt(b, a)
RLe(a, b)  == ~RLt(b, a)

-----------------------------------------------------------------------------
(* The configuration of a run.                                             *)

BITTREX  == "bittrex"
BITFINEX == "bitfinex"
Exchanges == {BITTREX, BITFINEX}

\* symbol(context.trading_pair_symbol, exchange.name): the asset of the pair
\* on one exchange; 'neo_eth' trades the market currency neo against eth
Symbol(pair, exchange_name) ==
    [ symbol |-> pair, exchange |-> exchange_name,
      market_currency |-> "neo", base_currency |-> "eth" ]

Point(gn, gd, an, ad) == [gap |-> Rat(gn, gd), amount |-> Rat(an, ad)]

\* context.entry_points as initialize() sets it
SourceEntryPoints ==
    << Point(3, 100, 5, 100), Point(4, 100, 1, 10), Point(5, 100, 5, 10) >>

\* context.exit_points as initialize() sets it
SourceExitPoints == << Point(-2, 100, 5, 10) >>

\* Rule tables a run may be configured with: the tables of the source, the
\* same rules listed in another order, an empty table, a single large rule,
\* and two rules sharing one threshold.  Every amount is > 0.
EntryTables ==
    { SourceEntryPoints,
      << Point(5, 100, 5, 10), Point(3, 100, 5, 100), Point(4, 100, 1, 10) >>,
      << >>,
      << Point(5, 100, 20, 1) >>,
      << Point(3, 100, 1, 10), Point(3, 100, 5, 100) >> }

\* The exit table of the source, an empty table, and a table whose second
\* threshold lies above the entry thresholds (so that a gap can satisfy an
\* entry rule and an exit rule at once).
ExitTables ==
    { SourceExitPoints,
      << >>,
      << Point(-2, 100, 5, 10), Point(5, 100, 1, 4) >> }

MAX_POSITIONS == 50

Initialize(entry_points, exit_points) ==
    [ buying_exchange     |-> BITTREX,
      selling_exchange    |-> BITFINEX,
      trading_pair_symbol |-> "neo_eth",
      trading_pairs       |-> [e \in Exchanges |-> Symbol("neo_eth", e)],
      entry_points        |-> entry_points,
      exit_points         |-> exit_points,
      MAX_POSITIONS       |-> MAX_POSITIONS,
      SLIPPAGE_ALLOWED    |-> Rat(2, 100) ]

-----------------------------------------------------------------------------
(* The readings the collaborators supply on each bar.                      *)

MaxOpenOrders == 1

BuyingPrices  == {-200, 0, 10, 200}
SellingPrices == {9, 11, 194, 196, 200, 206, 209, 210, 212}

CashLevels    == {Num(0), Num(5), Num(100)}

\* exchange.get_balances(): a dict currency -> amount, here with or without
\* an entry for the market currency
BalanceDicts ==
    { << >> } \cup { [c \in {"neo"} |-> v] : v \in {Num(0), Rat(1, 4), Num(100)} }

-----------------------------------------------------------------------------
(* place_order                                                             *)

\* Mutant of Legs: 'exit' keeps the roles of 'enter'
LegsNotInverted(ctx, buying, selling, action) ==
    IF action \in {"enter", "exit"} THEN
        [ raised |-> FALSE,
          enter_exchange |-> ctx.buying_exchange,  entry_price |-> buying,
          exit_exchange  |-> ctx.selling_exchange, exit_price  |-> selling ]
    ELSE
        [ raised |-> TRUE ]

\* The legs of the pair by action: who buys at which price, who sells.
\* An action other than 'enter' and 'exit' raises ValueError.
Legs(ctx, buying, selling, action) ==
    IF action = "enter" THEN
        [ raised |-> FALSE,
          enter_exchange |-> ctx.buying_exchange,  entry_price |-> buying,
          exit_exchange  |-> ctx.selling_exchange, exit_price  |-> selling ]
    ELSE IF action = "exit" THEN
        [ raised |-> FALSE,
          enter_exchange |-> ctx.selling_exchange, entry_price |-> selling,
          exit_exchange  |-> ctx.buying_exchange,  exit_price  |-> buying ]
    ELSE
        [ raised |-> TRUE ]

\* The currency looked up in the balances of the exit exchange
ExitCurrency(ctx) == ctx.trading_pairs[ctx.selling_exchange].market_currency

\* Mutant of AdjustAmount: the holdings are checked before the cash
AdjustAmountInventoryFirst(amount, entry_price, base_currency_amount, market_currency_amount) ==
    IF RLt(market_currency_amount, amount) THEN
        None
    ELSE IF RLt(base_currency_amount, RMul(amount, entry_price)) THEN
        RDiv(base_currency_amount, entry_price)
    ELSE
        amount

\* The amount to trade given the cash of the buying leg and the holdings of
\* the selling leg: reduced to what the cash affords, else None when the
\* holdings fall short, else unchanged.
AdjustAmount(amount, entry_price, base_currency_amount, market_currency_amount) ==
    IF RLt(base_currency_amount, RMul(amount, entry_price)) THEN
        RDiv(base_currency_amount, entry_price)
    ELSE IF RLt(market_currency_amount, amount) THEN
        None
    ELSE
        amount

\* order(asset, amount, limit_price) of the buying leg
BuyOrder(ctx, legs, amount) ==
    [ asset       |-> ctx.trading_pairs[legs.enter_exchange],
      amount      |-> amount,
      limit_price |-> RMul(legs.entry_price, RAdd(Num(1), ctx.SLIPPAGE_ALLOWED)) ]

\* order(asset, -amount, limit_price) of the selling leg
SellOrder(ctx, legs, amount) ==
    [ asset       |-> ctx.trading_pairs[legs.exit_exchange],
      amount      |-> RNeg(amount),
      limit_price |-> RMul(legs.exit_price, RSub(Num(1), ctx.SLIPPAGE_ALLOWED)) ]

\* place_order(context, amount, buying_price, selling_price, action) with the
\* cash and balances the exchanges report: whether it raised, and the
\* order() calls it made, in order.
PlaceOrder(ctx, amount, buying, selling, action, csh, bal) ==
    LET legs == Legs(ctx, buying, selling, action) IN
    IF legs.raised THEN [raised |-> TRUE, orders |-> << >>]
    ELSE
        LET base_currency_amount == csh[legs.enter_exchange]
            exit_balances        == bal[legs.exit_exchange]
            exit_currency        == ExitCurrency(ctx)
        IN
        IF exit_currency \notin DOMAIN exit_balances THEN
            [raised |-> FALSE, orders |-> << >>]
        ELSE
            LET adj == AdjustAmount(amount, legs.entry_price,
                                    base_currency_amount,
                                    exit_balances[exit_currency])
            IN
            IF adj = None THEN [raised |-> FALSE, orders |-> << >>]
            ELSE [ raised |-> FALSE,
                   orders |-> << BuyOrder(ctx, legs, adj),
                                 SellOrder(ctx, legs, adj) >> ]

-----------------------------------------------------------------------------
(* handle_data                                                             *)

\* gap = (selling_price - buying_price) / buying_price, for buying # 0
Gap(buying, selling) == RDiv(RSub(selling, buying), buying)

\* Mutant of HasOpenOrders: only the buying exchange is looked at
GateBuyingOnly(ctx, open) ==
    open[ctx.trading_pairs[ctx.buying_exchange].exchange] > 0

\* get_open_orders(asset) is non-empty for the asset of some exchange
HasOpenOrders(ctx, open) ==
    \E exchange \in DOMAIN ctx.trading_pairs :
        open[ctx.trading_pairs[exchange].exchange] > 0

\* Mutant of SortedAscending: the table is iterated as listed
Unsorted(points) == points

\* sorted(points, key=gap): stable, ascending
RECURSIVE SortedAscending(_)
SortedAscending(points) ==
    IF points = << >> THEN << >>
    ELSE
        LET n    == Len(points)
            last == points[n]
            head == SortedAscending(SubSeq(points, 1, n - 1))
            \* last goes after every element whose key is <= its key
            k    == Cardinality({i \in 1..Len(head) : RLe(head[i].gap, last.gap)})
        IN  SubSeq(head, 1, k) \o << last >> \o SubSeq(head, k + 1, Len(head))

\* Mutant of SortedDescending: reverse=True is dropped
SortedWithoutReverse(points) == SortedAscending(points)

\* sorted(points, key=gap, reverse=True): stable, descending
RECURSIVE SortedDescending(_)
SortedDescending(points) ==
    IF points = << >> THEN << >>
    ELSE
        LET n    == Len(points)
            last == points[n]
            head == SortedDescending(SubSeq(points, 1, n - 1))
            k    == Cardinality({i \in 1..Len(head) : RLe(last.gap, head[i].gap)})
        IN  SubSeq(head, 1, k) \o << last >> \o SubSeq(head, k + 1, Len(head))

\* for entry_point in entry_points: if gap > entry_point['gap']: buy_amount = ...
RECURSIVE LastAbove(_, _, _)
LastAbove(points, gap, amount) ==
    IF points = << >> THEN amount
    ELSE LastAbove(Tail(points), gap,
                   IF RGt(gap, Head(points).gap) THEN Head(points).amount
                   ELSE amount)

\* for exit_point in exit_points: if gap < exit_point['gap']: sell_amount = ...
RECURSIVE LastBelow(_, _, _)
LastBelow(points, gap, amount) ==
    IF points = << >> THEN amount
    ELSE LastBelow(Tail(points), gap,
                   IF RLt(gap, Head(points).gap) THEN Head(points).amount
                   ELSE amount)

BuyAmount(ctx, gap)  == LastAbove(SortedAscending(ctx.entry_points), gap, None)
SellAmount(ctx, gap) == LastBelow(SortedDescending(ctx.exit_points), gap, None)

\* Python truth value of an amount: None and 0 are false
Truthy(amount) == amount # None /\ amount.n # 0

\* Mutant of Trigger: the exit rules are tried whether or not enter fired
TriggerBoth(ctx, gap) ==
    LET buy_amount  == BuyAmount(ctx, gap)
        sell_amount == SellAmount(ctx, gap)
    IN  (IF Truthy(buy_amount)
         THEN << [action |-> "enter", amount |-> buy_amount] >> ELSE << >>)
        \o
        (IF Truthy(sell_amount)
         THEN << [action |-> "exit", amount |-> sell_amount] >> ELSE << >>)

\* The place_order calls of one bar that passed the open-order check
Trigger(ctx, gap) ==
    LET buy_amount == BuyAmount(ctx, gap) IN
    IF Truthy(buy_amount) THEN
        << [action |-> "enter", amount |-> buy_amount] >>
    ELSE
        LET sell_amount == SellAmount(ctx, gap) IN
        IF Truthy(sell_amount) THEN
            << [action |-> "exit", amount |-> sell_amount] >>
        ELSE << >>

\* The order() calls of a sequence of place_order calls
RECURSIVE PlacedOrders(_, _, _, _, _, _)
PlacedOrders(ctx, cs, buying, selling, csh, bal) ==
    IF cs = << >> THEN << >>
    ELSE PlaceOrder(ctx, Head(cs).amount, buying, selling, Head(cs).action,
                    csh, bal).orders
         \o PlacedOrders(ctx, Tail(cs), buying, selling, csh, bal)

\* handle_data(context, data) with data.current giving the integer prices bp
\* and sp, and the exchanges reporting open, csh and bal.  Dividing by a
\* buying price of 0 raises ZeroDivisionError before anything is recorded.
Bar(ctx, bp, sp, open, csh, bal) ==
    IF bp = 0 THEN
        [ pc |-> "raised", recorded |-> None, calls |-> << >>, orders |-> << >> ]
    ELSE
        LET gap == Gap(Num(bp), Num(sp))
            cs  == IF HasOpenOrders(ctx, open) THEN << >> ELSE Trigger(ctx, gap)
        IN  [ pc       |-> "returned",
              recorded |-> [buying_price |-> bp, selling_price |-> sp,
                            gap |-> gap],
              calls    |-> cs,
              orders   |-> PlacedOrders(ctx, cs, Num(bp), Num(sp), csh, bal) ]

\* One bar of the run
HandleData(bp, sp) ==
    /\ pc = "idle"
    /\ buying_price'  = bp
    /\ selling_price' = sp
    /\ LET bar == Bar(context, bp, sp, open_orders, cash, balances)
       IN  /\ pc' = bar.pc
           /\ recorded' = bar.recorded
           /\ calls' = bar.calls
           /\ orders' = bar.orders
    /\ UNCHANGED <<context, open_orders, cash, balances>>

\* run_algorithm moves on to the next bar after handle_data returned
NextBar ==
    /\ pc = "returned"
    /\ pc' = "idle"
    /\ recorded' = None
    /\ calls' = << >>
    /\ orders' = << >>
    /\ buying_price' = 0
    /\ selling_price' = 0
    /\ UNCHANGED <<context, open_orders, cash, balances>>

\* Between bars the exchanges change what they report: get_open_orders(asset)
OpenOrdersChange(e, n) ==
    /\ pc = "idle"
    /\ open_orders' = [open_orders EXCEPT ![e] = n]
    /\ UNCHANGED <<context, cash, balances, pc, buying_price, selling_price,
                   recorded, calls, orders>>

\* exchange.portfolio.cash
CashChange(e, c) ==
    /\ pc = "idle"
    /\ cash' = [cash EXCEPT ![e] = c]
    /\ UNCHANGED <<context, open_orders, balances, pc, buying_price,
                   selling_price, recorded, calls, orders>>

\* exchange.get_balances()
BalancesChange(e, b) ==
    /\ pc = "idle"
    /\ balances' = [balances EXCEPT ![e] = b]
    /\ UNCHANGED <<context, open_orders, cash, pc, buying_price,
                   selling_price, recorded, calls, orders>>

Init ==
    /\ context \in {Initialize(ep, xp) : ep \in EntryTables, xp \in ExitTables}
    /\ open_orders = [e \in Exchanges |-> 0]
    /\ cash = [e \in Exchanges |-> Num(100)]
    /\ balances = [e \in Exchanges |-> [c \in {"neo"} |-> Num(100)]]
    /\ pc = "idle"
    /\ buying_price = 0
    /\ selling_price = 0
    /\ recorded = None
    /\ calls = << >>
    /\ orders = << >>

Next ==
    \/ \E bp \in BuyingPrices, sp \in SellingPrices : HandleData(bp, sp)
    \/ NextBar
    \/ \E e \in Exchanges, n \in 0..MaxOpenOrders : OpenOrdersChange(e, n)
    \/ \E e \in Exchanges, c \in CashLevels : CashChange(e, c)
    \/ \E e \in Exchanges, b \in BalanceDicts : BalancesChange(e, b)

Spec == Init /\ [][Next]_vars

-----------------------------------------------------------------------------
(* Vocabulary of the properties: what a bar saw, stated without the         *)
(* operators of the model above.                                            *)

Returned == pc = "returned"
NoOpenOrders == \A e \in Exchanges : open_orders[e] = 0
TickGap == recorded.gap

EntryRules == context.entry_points
ExitRules  == context.exit_points

\* indices of the entry rules whose threshold the gap exceeds
Exceeded == {i \in DOMAIN EntryRules : RLt(EntryRules[i].gap, TickGap)}
\* among them, those with the largest threshold
LargestExceeded ==
    {i \in Exceeded : \A j \in Exceeded : RLe(EntryRules[j].gap, EntryRules[i].gap)}

\* indices of the exit rules whose threshold the gap undercuts
Undercut == {i \in DOMAIN ExitRules : RLt(TickGap, ExitRules[i].gap)}
\* among them, those with the most negative threshold
LowestUndercut ==
    {i \in Undercut : \A j \in Undercut : RLe(ExitRules[i].gap, ExitRules[j].gap)}

MaxOf(S) == CHOOSE x \in S : \A y \in S : y <= x

\* the buy leg and the sell leg of an action, and the price each trades at
BuyLeg(action)   == IF action = "enter" THEN BITTREX ELSE BITFINEX
SellLeg(action)  == IF action = "enter" THEN BITFINEX ELSE BITTREX
BuyPrice(action) == IF action = "enter" THEN Num(buying_price) ELSE Num(selling_price)
SellPrice(action) == IF action = "enter" THEN Num(selling_price) ELSE Num(buying_price)
CashAvail(action) == cash[BuyLeg(action)]
HoldsMarket(action) == "neo" \in DOMAIN balances[SellLeg(action)]
MarketAvail(action) == balances[SellLeg(action)]["neo"]
CashShort(c) == RLt(CashAvail(c.action), RMul(c.amount, BuyPrice(c.action)))

\* C1: a bar on which some exchange has an open order of its asset emits no
\* order, whatever the gap, the rule tables and the balances are.
C1_OpenOrderGate ==
    (pc # "idle" /\ ~NoOpenOrders) => (orders = << >> /\ calls = << >>)

\* an open order on one exchange suppressed a bar whose gap exceeds an entry
\* threshold
C1_Witness ==
    /\ Returned
    /\ open_orders[BITFINEX] > 0 /\ open_orders[BITTREX] = 0
    /\ Exceeded # {}
    /\ HoldsMarket("enter") /\ RLe(Num(100), MarketAvail("enter"))
    /\ orders = << >>

\* C2: place_order is called at most once per bar, never with 'enter' and
\* 'exit' on the same bar.
C2_AtMostOneAction ==
    /\ Len(calls) <= 1
    /\ ~(\E i, j \in DOMAIN calls : calls[i].action = "enter" /\ calls[j].action = "exit")

\* the gap satisfies an entry rule and an exit rule at once, and only enter fired
C2_Witness ==
    /\ Returned /\ NoOpenOrders
    /\ Exceeded # {} /\ Undercut # {}
    /\ Len(calls) = 1 /\ calls[1].action = "enter"

\* C3: when the gap exceeds an entry threshold, the bar selects Enter with the
\* amount of the rule with the largest threshold exceeded, wherever that rule
\* stands in the table (of rules sharing that threshold, the one listed last).
C3_LargestExceededWins ==
    (Returned /\ NoOpenOrders /\ Exceeded # {}) =>
        calls = << [ action |-> "enter",
                     amount |-> EntryRules[MaxOf(LargestExceeded)].amount ] >>

\* rules listed as (0.05,0.5), (0.03,0.05), (0.04,0.1) and a gap of 0.045
\* select Enter(0.1)
C3_Witness ==
    /\ Returned /\ NoOpenOrders
    /\ EntryRules = << Point(5, 100, 5, 10), Point(3, 100, 5, 100), Point(4, 100, 1, 10) >>
    /\ TickGap = Rat(45, 1000)
    /\ calls = << [action |-> "enter", amount |-> Rat(1, 10)] >>

\* C4: when no entry amount was selected, the bar selects Exit with the amount
\* of the exit rule with the most negative threshold undercut, and calls
\* place_order not at all when the gap undercuts no exit threshold.
C4_ExitSelection ==
    (Returned /\ NoOpenOrders /\ Exceeded = {}) =>
        IF Undercut = {} THEN calls = << >>
        ELSE calls = << [ action |-> "exit",
                          amount |-> ExitRules[MaxOf(LowestUndercut)].amount ] >>

\* exit rules (-0.02,0.5), (0.05,0.25) at gap -0.03: both are undercut and the
\* more negative one gives Exit(0.5)
C4_Witness ==
    /\ Returned /\ NoOpenOrders
    /\ Len(ExitRules) = 2
    /\ TickGap = Rat(-3, 100)
    /\ Cardinality(Undercut) = 2
    /\ calls = << [action |-> "exit", amount |-> Rat(1, 2)] >>

\* C5: if the sell-leg exchange's balance of the market currency is 0, the
\* place_order call of the bar emits no orders (stated on bars with valid,
\* positive prices).
C5_ZeroInventoryNoOrders ==
    (Returned /\ buying_price > 0 /\ selling_price > 0
        /\ Len(calls) = 1 /\ HoldsMarket(calls[1].action)
        /\ MarketAvail(calls[1].action) = Num(0))
    => orders = << >>

\* C6: every bar emits zero orders or exactly two, and two are one buy with a
\* positive amount and one sell with a negative amount of equal magnitude
\* (stated on bars with valid, positive prices).
C6_PairedOrders ==
    (pc # "idle" /\ buying_price > 0 /\ selling_price > 0) =>
        \/ orders = << >>
        \/ /\ Len(orders) = 2
           /\ RLt(Num(0), orders[1].amount)
           /\ RLt(orders[2].amount, Num(0))
           /\ orders[2].amount = RNeg(orders[1].amount)

\* C7: when the sell-leg exchange holds the market currency and the buy-leg
\* cash is below amount * buyPrice, both orders are emitted with magnitude
\* cashAvail / buyPrice, whatever the sell-leg balance is.
C7_CashClamp ==
    (Returned /\ Len(calls) = 1 /\ HoldsMarket(calls[1].action) /\ CashShort(calls[1]))
    => LET a == RDiv(CashAvail(calls[1].action), BuyPrice(calls[1].action))
       IN  /\ Len(orders) = 2
           /\ orders[1].amount = a
           /\ orders[2].amount = RNeg(a)

\* cash 100, buying price 10, requested amount 20, sell-leg balance 0.25:
\* two orders of magnitude 10
C7_Witness ==
    /\ Returned
    /\ calls = << [action |-> "enter", amount |-> Num(20)] >>
    /\ buying_price = 10 /\ cash[BITTREX] = Num(100)
    /\ HoldsMarket("enter") /\ MarketAvail("enter") = Rat(1, 4)
    /\ Len(orders) = 2
    /\ orders[1].amount = Num(10) /\ orders[2].amount = Num(-10)

\* C8: a bar whose buying price is <= 0 is skipped: handle_data returns
\* without raising and emits no orders.
C8_NonPositivePriceSkipped ==
    (pc # "idle" /\ buying_price <= 0) => (pc = "returned" /\ orders = << >>)

\* C9: the buy order goes to the buy leg of the action at its price times
\* (1 + slippage), the sell order to the sell leg at its price times
\* (1 - slippage); the cash that sizes the pair is the buy leg's and the
\* holdings that admit it are the sell leg's.
C9_LegsFollowAction ==
    (Returned /\ orders # << >>) =>
        /\ Len(calls) = 1 /\ Len(orders) = 2
        /\ LET c == calls[1] IN
           /\ orders[1].asset = context.trading_pairs[BuyLeg(c.action)]
           /\ orders[1].asset.exchange = BuyLeg(c.action)
           /\ orders[1].limit_price = RMul(BuyPrice(c.action), Rat(102, 100))
           /\ orders[2].asset = context.trading_pairs[SellLeg(c.action)]
           /\ orders[2].asset.exchange = SellLeg(c.action)
           /\ orders[2].limit_price = RMul(SellPrice(c.action), Rat(98, 100))
           /\ HoldsMarket(c.action)
           /\ IF CashShort(c)
              THEN orders[1].amount = RDiv(CashAvail(c.action), BuyPrice(c.action))
              ELSE /\ orders[1].amount = c.amount
                   /\ RLe(c.amount, MarketAvail(c.action))

\* an exit: the buy order is on the selling exchange, sized by that
\* exchange's cash, while the buying exchange has no cash at all
C9_Witness ==
    /\ Returned
    /\ Len(calls) = 1 /\ calls[1].action = "exit"
    /\ Len(orders) = 2
    /\ orders[1].asset.exchange = BITFINEX /\ orders[2].asset.exchange = BITTREX
    /\ cash[BITFINEX] = Num(5) /\ cash[BITTREX] = Num(0)
    /\ orders[1].amount = Rat(5, selling_price)
    /\ "neo" \notin DOMAIN balances[BITFINEX]

\* C10: with positive prices and non-negative balances, an emitted pair has a
\* magnitude that is > 0 and at most the amount of the selected rule.
C10_MagnitudeWithinRule ==
    (Returned /\ buying_price > 0 /\ selling_price > 0 /\ orders # << >>) =>
        /\ RLt(Num(0), orders[1].amount)
        /\ RLe(orders[1].amount, calls[1].amount)

====
